---- MODULE Spec2Model ----
(***************************************************************************)
(* Model of streamlit_app.py: the StockAnalyzer class (price-window        *)
(* performance, RSI / moving-average indicators, the uptrend heuristic and *)
(* the additive entry score) and the request flow of the Streamlit script  *)
(* that constructs an analyzer, calls analyze() and renders the result.    *)
(*                                                                         *)
(* Numbers.  Closes are integers (a price unit is arbitrary: every         *)
(* quantity the code derives is a ratio of prices or a comparison of       *)
(* sums).  A float quotient num/den is the pair <<n, d>> with d >= 0:      *)
(* d > 0 is the rational n/d, d = 0 is what numpy's float division by zero *)
(* yields: +inf (n > 0), -inf (n < 0), nan (n = 0).  For closes of this    *)
(* size the thresholds 0.15, 0.20, 25, 50 are compared exactly by          *)
(* cross-multiplication (two distinct quotients of small integers differ   *)
(* by far more than a float ulp).  None is <<>>.                           *)
(***************************************************************************)
EXTENDS Integers, Sequences, FiniteSets, TLC

VARIABLES pc, symbol, stock_data, performance_metrics, trend_indicators,
          uptrend, uptrend_ret, info, analysis, error, rendered

vars == <<pc, symbol, stock_data, performance_metrics, trend_indicators,
          uptrend, uptrend_ret, info, analysis, error, rendered>>

None == <<>>

\* ------------------------------------------------------------------------
\* Bounds of the input space
\* ------------------------------------------------------------------------
MaxLen == 253

\* ------------------------------------------------------------------------
\* Float quotients
\* ------------------------------------------------------------------------
Sign(x) == IF x > 0 THEN 1 ELSE IF x < 0 THEN -1 ELSE 0

\* num / den as numpy float64 division (no exception on a zero divisor)
Div(num, den) ==
    IF den > 0 THEN <<num, den>>
    ELSE IF den < 0 THEN <<-num, -den>>
    ELSE <<Sign(num), 0>>

\* q > p/r, q < p/r, q >= p/r, q <= p/r for a quotient q and r > 0;
\* every comparison with nan is false
QGt(q, p, r) == IF q[2] = 0 THEN q[1] > 0 ELSE q[1] * r > p * q[2]
QLt(q, p, r) == IF q[2] = 0 THEN q[1] < 0 ELSE q[1] * r < p * q[2]
QGe(q, p, r) == IF q[2] = 0 THEN q[1] > 0 ELSE q[1] * r >= p * q[2]
QLe(q, p, r) == IF q[2] = 0 THEN q[1] < 0 ELSE q[1] * r <= p * q[2]
QEq(q, p, r) == q[2] > 0 /\ q[1] * r = p * q[2]

\* Python truth value of an optional float: None and 0.0 are false
Truthy(q) == q # None /\ ~(q[2] > 0 /\ q[1] = 0)

\* ------------------------------------------------------------------------
\* pandas helpers
\* ------------------------------------------------------------------------
Closes(df) == [i \in 1..Len(df) |-> df[i].close]

\* df.tail(n)
TailN(s, n) == IF Len(s) <= n THEN s ELSE SubSeq(s, Len(s) - n + 1, Len(s))

\* s.iloc[-k] is defined (no IndexError)
InBounds(s, k) == k >= 1 /\ k <= Len(s)

\* s.iloc[-k]
ILocNeg(s, k) == s[Len(s) - k + 1]

\* s[lo] + ... + s[hi]
RECURSIVE SumRange(_, _, _)
SumRange(s, lo, hi) ==
    IF lo > hi THEN 0
    ELSE IF lo = hi THEN s[lo]
    ELSE SumRange(s, lo, (lo + hi) \div 2) + SumRange(s, (lo + hi) \div 2 + 1, hi)

\* variant: rolling(window=w, min_periods=1), a mean over the bars there are
RollingLast_MinPeriods1(s, w) ==
    IF Len(s) = 0 THEN None
    ELSE <<SumRange(s, IF Len(s) < w THEN 1 ELSE Len(s) - w + 1, Len(s))>>

\* s.rolling(window=w).mean().iloc[-1]: NaN (None) with fewer than w values,
\* else the sum of the last w values (the mean is that sum over w)
RollingLast(s, w) ==
    IF Len(s) < w THEN None ELSE <<SumRange(s, Len(s) - w + 1, Len(s))>>

\* ------------------------------------------------------------------------
\* StockAnalyzer.calculate_performance_metrics
\* ------------------------------------------------------------------------
Periods == {"1_week", "1_month", "3_months", "6_months", "1_year"}

Days(p) ==
    CASE p = "1_week" -> 5
      [] p = "1_month" -> 22
      [] p = "3_months" -> 66
      [] p = "6_months" -> 126
      [] p = "1_year" -> 252

\* variant: the guard admits one bar too few
PerfWindowOk_OneShort(df, days) == Len(df) >= days - 1

\* if len(df) >= days
PerfWindowOk(df, days) == Len(df) >= days

\* variant: the start price is taken one bar earlier, iloc[-(days + 1)]
PerfStartOffset_OneEarlier(days) == days + 1

\* start_price = df['Close'].iloc[-days]
PerfStartOffset(days) == days

\* (current_price - start_price) / start_price * 100
Performance(current_price, start_price) ==
    Div((current_price - start_price) * 100, start_price)

PerformanceRaises(df) ==
    \/ ~InBounds(df, 1)
    \/ \E p \in Periods :
          PerfWindowOk(df, Days(p)) /\ ~InBounds(df, PerfStartOffset(Days(p)))

calculate_performance_metrics(df) ==
    [p \in Periods |->
        IF PerfWindowOk(df, Days(p))
        THEN Performance(ILocNeg(Closes(df), 1),
                         ILocNeg(Closes(df), PerfStartOffset(Days(p))))
        ELSE None]

\* ------------------------------------------------------------------------
\* StockAnalyzer.calculate_trend_indicators
\* ------------------------------------------------------------------------
\* df['green_candle'].sum() over the 20-bar tail
GreenCandles(df) == Cardinality({i \in 1..Len(df) : df[i].close > df[i].open})

\* delta.where(delta > 0, 0): the first difference is NaN, NaN > 0 is false,
\* so the first entry becomes 0 like every non-positive difference
GainSeq(c) ==
    [i \in 1..Len(c) |-> IF i > 1 /\ c[i] - c[i-1] > 0 THEN c[i] - c[i-1] ELSE 0]

\* -delta.where(delta < 0, 0)
LossSeq(c) ==
    [i \in 1..Len(c) |-> IF i > 1 /\ c[i] - c[i-1] < 0 THEN c[i-1] - c[i] ELSE 0]

\* rsi.iloc[-1] from the 14-bar sums of gains g and losses l (None is NaN):
\* rs = gain / loss, rsi = 100 - 100 / (1 + rs)
RsiOf(g, l) ==
    IF l = 0
    THEN IF g > 0 THEN <<100, 1>> ELSE None
    ELSE <<100 * g, g + l>>

RsiLast(df) ==
    LET gain == RollingLast(GainSeq(Closes(df)), 14)
        loss == RollingLast(LossSeq(Closes(df)), 14)
    IN  IF gain = None \/ loss = None THEN None ELSE RsiOf(gain[1], loss[1])

\* float(rsi.iloc[-1]) if not pd.isna(rsi.iloc[-1]) else 50.0
CurrentRsi(df) == IF RsiLast(df) = None THEN <<50, 1>> ELSE RsiLast(df)

\* bool(current_price > maN.iloc[-1]) if not pd.isna(maN.iloc[-1]) else False
AboveMA(df_full, w) ==
    LET ma == RollingLast(Closes(df_full), w)
    IN  IF ma = None THEN FALSE
        ELSE ILocNeg(Closes(df_full), 1) * w > ma[1]

TrendRaises(df_full) == ~InBounds(df_full, 1)

calculate_trend_indicators(df_full) ==
    [green_candles_last_20 |-> GreenCandles(TailN(df_full, 20)),
     current_rsi |-> CurrentRsi(TailN(df_full, 20)),
     above_ma20 |-> AboveMA(df_full, 20),
     above_ma50 |-> AboveMA(df_full, 50),
     above_ma150 |-> AboveMA(df_full, 150)]

\* ------------------------------------------------------------------------
\* StockAnalyzer.calculate_higher_lows_highs
\* ------------------------------------------------------------------------
\* (current_price - start_price) / start_price with start = iloc[-offset]
Return(df, offset) ==
    Div(ILocNeg(Closes(df), 1) - ILocNeg(Closes(df), offset),
        ILocNeg(Closes(df), offset))

\* if len(df) >= 120 / if len(df) >= 60
SixMonthWindowOk(df) == Len(df) >= 120
ThreeMonthWindowOk(df) == Len(df) >= 60

\* variant: the six-month threshold is 0.30
SixMonthCheck_Threshold30(df) ==
    SixMonthWindowOk(df) /\ QGt(Return(df, 120), 30, 100)

\* six_month_return > 0.20
SixMonthCheck(df) == SixMonthWindowOk(df) /\ QGt(Return(df, 120), 20, 100)

\* three_month_return > 0.15
ThreeMonthCheck(df) == ThreeMonthWindowOk(df) /\ QGt(Return(df, 60), 15, 100)

UptrendRaises(df) ==
    \/ SixMonthWindowOk(df) /\ ~InBounds(df, 120)
    \/ ThreeMonthWindowOk(df) /\ ~InBounds(df, 60)

\* variant: with >= 120 bars the six-month check alone decides (if/elif)
calculate_higher_lows_highs_NoFallThrough(df) ==
    IF SixMonthWindowOk(df)
    THEN IF SixMonthCheck(df) THEN [value |-> TRUE, line |-> 126]
         ELSE [value |-> FALSE, line |-> 136]
    ELSE IF ThreeMonthCheck(df) THEN [value |-> TRUE, line |-> 134]
    ELSE [value |-> FALSE, line |-> 136]

\* the value returned and the line of the return statement reached
calculate_higher_lows_highs(df) ==
    IF SixMonthCheck(df) THEN [value |-> TRUE, line |-> 126]
    ELSE IF ThreeMonthCheck(df) THEN [value |-> TRUE, line |-> 134]
    ELSE [value |-> FALSE, line |-> 136]

\* ------------------------------------------------------------------------
\* StockAnalyzer.analyze: the scoring rules
\* ------------------------------------------------------------------------
\* a factor text: the rule that emitted it and the number formatted into it
Factor(rule, value) == [rule |-> rule, value |-> value]

Outcome(score, reasons, risks) ==
    [score |-> score, reasons |-> reasons, risks |-> risks]

\* 6-month performance rule
PerformanceRule(pm) ==
    IF Truthy(pm["6_months"]) /\ QGt(pm["6_months"], 50, 1)
    THEN Outcome(2, <<Factor("performance_exceptional", pm["6_months"])>>, <<>>)
    ELSE IF Truthy(pm["6_months"]) /\ QGt(pm["6_months"], 25, 1)
    THEN Outcome(1, <<Factor("performance_excellent", pm["6_months"])>>, <<>>)
    ELSE Outcome(0, <<>>, <<>>)

\* variant: an uptrend is worth 4 points
UptrendRule_FourPoints(up) ==
    IF up
    THEN Outcome(4, <<Factor("uptrend_strong", None)>>, <<>>)
    ELSE Outcome(0, <<>>, <<Factor("uptrend_none", None)>>)

\* uptrend rule
UptrendRule(up) ==
    IF up
    THEN Outcome(2, <<Factor("uptrend_strong", None)>>, <<>>)
    ELSE Outcome(0, <<>>, <<Factor("uptrend_none", None)>>)

\* sum([above_ma20, above_ma50, above_ma150])
MovingAveragesAbove(ti) ==
    (IF ti.above_ma20 THEN 1 ELSE 0) + (IF ti.above_ma50 THEN 1 ELSE 0)
        + (IF ti.above_ma150 THEN 1 ELSE 0)

\* moving-average rule
MovingAverageRule(ti) ==
    IF MovingAveragesAbove(ti) = 3
    THEN Outcome(2, <<Factor("ma_above_all", None)>>, <<>>)
    ELSE IF MovingAveragesAbove(ti) = 2
    THEN Outcome(1, <<Factor("ma_above_most", None)>>, <<>>)
    ELSE Outcome(0, <<>>, <<Factor("ma_below_most", None)>>)

\* variant: the optimal band excludes its lower end (40 < rsi <= 60)
RsiRule_OpenLowerEnd(rsi) ==
    IF QGt(rsi, 40, 1) /\ QLe(rsi, 60, 1)
    THEN Outcome(1, <<Factor("rsi_optimal", rsi)>>, <<>>)
    ELSE IF QGt(rsi, 70, 1)
    THEN Outcome(0, <<>>, <<Factor("rsi_high", rsi)>>)
    ELSE IF QLt(rsi, 30, 1)
    THEN Outcome(0, <<>>, <<Factor("rsi_low", rsi)>>)
    ELSE Outcome(0, <<>>, <<>>)

\* RSI rule
RsiRule(rsi) ==
    IF QGe(rsi, 40, 1) /\ QLe(rsi, 60, 1)
    THEN Outcome(1, <<Factor("rsi_optimal", rsi)>>, <<>>)
    ELSE IF QGt(rsi, 70, 1)
    THEN Outcome(0, <<>>, <<Factor("rsi_high", rsi)>>)
    ELSE IF QLt(rsi, 30, 1)
    THEN Outcome(0, <<>>, <<Factor("rsi_low", rsi)>>)
    ELSE Outcome(0, <<>>, <<>>)

\* entry_score, reasons and risks after the four rules, in source order
ScoreRules(pm, ti, up) ==
    LET a == PerformanceRule(pm)
        b == UptrendRule(up)
        c == MovingAverageRule(ti)
        d == RsiRule(ti.current_rsi)
    IN  Outcome(a.score + b.score + c.score + d.score,
                a.reasons \o b.reasons \o c.reasons \o d.reasons,
                a.risks \o b.risks \o c.risks \o d.risks)

\* info.get(key, default)
Get(d, key, default) == IF key \in DOMAIN d THEN d[key] ELSE default

\* the dict returned by analyze()
AnalysisResult(sym, df, pm, ti, up, inf) ==
    LET r == ScoreRules(pm, ti, up)
    IN  [symbol |-> sym,
         current_price |-> ILocNeg(Closes(df), 1),
         entry_score |-> r.score,
         max_score |-> 8,
         supporting_factors |-> r.reasons,
         risk_factors |-> r.risks,
         performance |-> pm,
         trend |-> [uptrend |-> up],
         technical_indicators |-> ti,
         company_info |-> [market_cap |-> Get(inf, "marketCap", 0),
                           sector |-> Get(inf, "sector", "Unknown"),
                           shortName |-> Get(inf, "shortName", sym)]]

\* ------------------------------------------------------------------------
\* The script: rendering of an analysis (the body of the try block)
\* ------------------------------------------------------------------------
\* (analysis['entry_score'] / analysis['max_score']) * 100
ScorePercentage(a) == Div(a.entry_score * 100, a.max_score)

\* the final recommendation tier
Recommendation(a) ==
    IF QGe(ScorePercentage(a), 75, 1) THEN "recommend_ideal"
    ELSE IF QGe(ScorePercentage(a), 50, 1) THEN "recommend_caution"
    ELSE "recommend_not"

\* the keys of analysis['technical_indicators'] the indicators list reads
IndicatorKeysRead == {"green_candles", "rsi", "above_ma20", "above_ma50", "above_ma150"}

\* a read of a missing key raises KeyError
IndicatorsRaise(a) == ~(IndicatorKeysRead \subseteq DOMAIN a.technical_indicators)

\* what is on the page before the indicators list is built
SectionsBeforeIndicators ==
    <<"title", "price", "score", "performance", "chart", "indicators_header">>

\* what the rest of the try block adds
SectionsFromIndicators(a) ==
    <<"indicators", "company", "supporting_factors", "risk_factors", Recommendation(a)>>

Recommendations == {"recommend_ideal", "recommend_caution", "recommend_not"}

\* ------------------------------------------------------------------------
\* Inputs: what the user types and what the data provider returns
\* ------------------------------------------------------------------------
Symbols == {"", "aapl"}

\* symbol.upper()
Upper(sym) == IF sym = "aapl" THEN "AAPL" ELSE sym

\* the dict behind self.stock.info
InfoDict == [marketCap |-> 3000000, sector |-> "Technology", shortName |-> "Apple Inc."]

\* daily bars from a sequence of closes; a bar opens at the previous close
Bars(c) == [i \in 1..Len(c) |->
              [open |-> IF i = 1 THEN c[1] ELSE c[i-1], close |-> c[i]]]

\* L bars: L-k bars at level a, then k bars at level b whose closes
\* alternate between b+z (the last bar) and b
StepCloses(L, k, a, b, z) ==
    [i \in 1..L |-> IF i <= L - k THEN a
                    ELSE b + (IF (L - i) % 2 = 0 THEN z ELSE 0)]

\* L bars rising (or falling) linearly from base by slope per bar
RampCloses(L, base, slope) == [i \in 1..L |-> base + slope * (i - 1)]

\* series lengths around every lookback window of the code
Lengths ==
    {L \in 1..MaxLen :
        \/ L \in {1, 4, 5, 6, 13, 14, 15, 19, 20, 21, 22, 49, 50, 59, 60, 61,
                  65, 66, 119, 120, 121, 125, 126, 127, 130, 149, 150, 251,
                  252, 253}
        \/ L = MaxLen}

\* how many bars lie after the step
StepAges == {1, 4, 5, 13, 14, 19, 20, 59, 60, 119, 120, 125, 126, 251, 252}

\* <<a, b>>: the level before and after the step
StepLevels ==
    {<<100, 100>>, <<100, 115>>, <<100, 116>>, <<100, 120>>, <<100, 121>>,
     <<100, 125>>, <<100, 126>>, <<100, 150>>, <<100, 152>>, <<100, 80>>,
     <<100, 0>>, <<100, -5>>, <<0, 100>>}

\* z: how far the last bar (and every second bar before it) closes above b
Zigzags == {-1, 0, 1, 16}

\* <<base, slope>>; <<4300, 10>> at 130 bars is the rise from 100 to 130
\* in units of 1/43 (the 129 steps of 30/129 = 10/43 each)
Ramps == {<<4300, 10>>, <<100, 1>>, <<300, -1>>}

\* the shapes of history the provider may return: no bars at all, a step,
\* a ramp
HistoryShapes ==
    {[shape |-> "empty", L |-> 0, k |-> 0, a |-> 0, b |-> 0, z |-> 0]}
    \cup {[shape |-> "step", L |-> L, k |-> k, a |-> lv[1], b |-> lv[2], z |-> z] :
            L \in Lengths, k \in StepAges, lv \in StepLevels, z \in Zigzags}
    \cup {[shape |-> "ramp", L |-> L, k |-> 0, a |-> r[1], b |-> r[2], z |-> 0] :
            L \in Lengths, r \in Ramps}

\* self.stock.history(start=start_date) for a shape
History(h) ==
    CASE h.shape = "empty" -> <<>>
      [] h.shape = "step" -> Bars(StepCloses(h.L, h.k, h.a, h.b, h.z))
      [] h.shape = "ramp" -> Bars(RampCloses(h.L, h.a, h.b))

\* ------------------------------------------------------------------------
\* State machine of one script run
\* ------------------------------------------------------------------------
Init ==
    /\ pc = "idle"
    /\ symbol = ""
    /\ stock_data = <<>>
    /\ performance_metrics = None
    /\ trend_indicators = None
    /\ uptrend = None
    /\ uptrend_ret = 0
    /\ info = None
    /\ analysis = None
    /\ error = ""
    /\ rendered = <<>>

\* if analyze_button and symbol: (the sidebar example buttons set both)
StartRequest ==
    /\ pc = "idle"
    /\ \E sym \in Symbols, analyze_button \in BOOLEAN :
          /\ analyze_button /\ sym # ""
          /\ symbol' = sym
    /\ pc' = "construct"
    /\ UNCHANGED <<stock_data, performance_metrics, trend_indicators, uptrend,
                   uptrend_ret, info, analysis, error, rendered>>

\* else: the default page
ShowDefault ==
    /\ pc = "idle"
    /\ \E sym \in Symbols, analyze_button \in BOOLEAN :
          /\ ~(analyze_button /\ sym # "")
          /\ symbol' = sym
    /\ rendered' = <<"default_page">>
    /\ pc' = "done"
    /\ UNCHANGED <<stock_data, performance_metrics, trend_indicators, uptrend,
                   uptrend_ret, info, analysis, error>>

\* StockAnalyzer(symbol.upper()): __init__ and get_data
Construct ==
    /\ pc = "construct"
    /\ \E history_raises \in BOOLEAN, h \in HistoryShapes :
          IF history_raises
          THEN /\ error' = "Error fetching data: history failed"
               /\ pc' = "except"
               /\ UNCHANGED stock_data
          ELSE /\ h.k <= h.L
               /\ stock_data' = History(h)
               /\ IF Len(History(h)) = 0
                  THEN /\ error' = "Error fetching data: No data found for symbol"
                       /\ pc' = "except"
                  ELSE /\ error' = error
                       /\ pc' = "analyze"
    /\ symbol' = Upper(symbol)
    /\ UNCHANGED <<performance_metrics, trend_indicators, uptrend, uptrend_ret,
                   info, analysis, rendered>>

\* an .iloc[...] of lines 140-143 is out of bounds
CalculatorsRaise(df) ==
    \/ ~InBounds(df, 1)
    \/ PerformanceRaises(df)
    \/ TrendRaises(df)
    \/ UptrendRaises(df)

\* analyze(), lines 139-145: the three calculators and the metadata lookup
Calculate ==
    /\ pc = "analyze"
    /\ \E info_raises \in BOOLEAN :
          IF CalculatorsRaise(stock_data) \/ info_raises
          THEN /\ error' = IF CalculatorsRaise(stock_data)
                           THEN "Error in analysis: IndexError"
                           ELSE "Error in analysis: info failed"
               /\ pc' = "except"
               /\ UNCHANGED <<performance_metrics, trend_indicators, uptrend,
                              uptrend_ret, info>>
          ELSE /\ performance_metrics' = <<calculate_performance_metrics(stock_data)>>
               /\ trend_indicators' = <<calculate_trend_indicators(stock_data)>>
               /\ uptrend' = <<calculate_higher_lows_highs(stock_data).value>>
               /\ uptrend_ret' = calculate_higher_lows_highs(stock_data).line
               /\ info' = <<InfoDict>>
               /\ pc' = "score"
               /\ UNCHANGED error
    /\ UNCHANGED <<symbol, stock_data, analysis, rendered>>

\* analyze(), lines 147-205: the rule table and the returned dict
Score ==
    /\ pc = "score"
    /\ analysis' = <<AnalysisResult(symbol, stock_data, performance_metrics[1],
                                    trend_indicators[1], uptrend[1], info[1])>>
    /\ pc' = "render"
    /\ UNCHANGED <<symbol, stock_data, performance_metrics, trend_indicators,
                   uptrend, uptrend_ret, info, error, rendered>>

\* the rest of the try block: every section of the page, in order
Render ==
    /\ pc = "render"
    /\ IF IndicatorsRaise(analysis[1])
       THEN /\ rendered' = SectionsBeforeIndicators
            /\ error' = "KeyError"
            /\ pc' = "except"
       ELSE /\ rendered' = SectionsBeforeIndicators \o SectionsFromIndicators(analysis[1])
            /\ error' = error
            /\ pc' = "done"
    /\ UNCHANGED <<symbol, stock_data, performance_metrics, trend_indicators,
                   uptrend, uptrend_ret, info, analysis>>

\* except Exception as e: st.error, st.info
HandleError ==
    /\ pc = "except"
    /\ rendered' = rendered \o <<"error_message", "symbol_hint">>
    /\ pc' = "done"
    /\ UNCHANGED <<symbol, stock_data, performance_metrics, trend_indicators,
                   uptrend, uptrend_ret, info, analysis, error>>

\* Streamlit runs the script again from the top on the next interaction
Rerun ==
    /\ pc = "done"
    /\ pc' = "idle"
    /\ symbol' = ""
    /\ stock_data' = <<>>
    /\ performance_metrics' = None
    /\ trend_indicators' = None
    /\ uptrend' = None
    /\ uptrend_ret' = 0
    /\ info' = None
    /\ analysis' = None
    /\ error' = ""
    /\ rendered' = <<>>

Next ==
    \/ StartRequest
    \/ ShowDefault
    \/ Construct
    \/ Calculate
    \/ Score
    \/ Render
    \/ HandleError
    \/ Rerun

Spec == Init /\ [][Next]_vars

\* ------------------------------------------------------------------------
\* The rule table alone: analyze() at line 147, its locals drawn freely
\* ------------------------------------------------------------------------
\* 6-month performance values around the thresholds 25 and 50, absent,
\* and the quotients of a zero start price (inf, nan, -inf)
PerformanceInputs ==
    {None, <<-10, 1>>, <<0, 1>>, <<25, 1>>, <<2501, 100>>, <<26, 1>>, <<50, 1>>,
     <<5001, 100>>, <<51, 1>>, <<1, 0>>, <<0, 0>>, <<-1, 0>>}

\* RSI values around the thresholds 30, 40, 60 and 70
RsiInputs ==
    {<<0, 1>>, <<29, 1>>, <<2999, 100>>, <<30, 1>>, <<35, 1>>, <<3999, 100>>,
     <<40, 1>>, <<50, 1>>, <<60, 1>>, <<6001, 100>>, <<65, 1>>, <<70, 1>>,
     <<7001, 100>>, <<100, 1>>}

InitScore ==
    /\ pc = "score"
    /\ symbol = "AAPL"
    /\ stock_data = Bars(<<100>>)
    /\ \E p6 \in PerformanceInputs :
          performance_metrics =
             <<[p \in Periods |->
                  IF p = "6_months" THEN p6
                  ELSE IF p = "1_year" \/ p6 = None THEN None ELSE <<0, 1>>]>>
    /\ \E rsi \in RsiInputs, m20 \in BOOLEAN, m50 \in BOOLEAN, m150 \in BOOLEAN :
          trend_indicators =
             <<[green_candles_last_20 |-> 0, current_rsi |-> rsi,
                above_ma20 |-> m20, above_ma50 |-> m50, above_ma150 |-> m150]>>
    /\ \E up \in BOOLEAN :
          /\ uptrend = <<up>>
          /\ uptrend_ret = IF up THEN 126 ELSE 136
    /\ info = <<InfoDict>>
    /\ analysis = None
    /\ error = ""
    /\ rendered = <<>>

SpecScore == InitScore /\ [][Score]_vars

\* ------------------------------------------------------------------------
\* Properties
\* ------------------------------------------------------------------------
\* every close is a positive number and there is at least one bar
ValidSeries(df) == Len(df) >= 1 /\ \A i \in 1..Len(df) : df[i].close > 0

Analysed == analysis # None

\* the close at 0-based index i of the series
CloseAt(df, i) == df[i + 1].close

LastClose(df) == df[Len(df)].close

\* num / den, as a float quotient, is the quotient q
SameQuotient(q, num, den) ==
    IF den = 0 THEN q = <<Sign(num), 0>>
    ELSE q[2] > 0 /\ q[1] * den = num * q[2]

\* (cur - ref) / ref > p / r in float arithmetic (r > 0)
ReturnExceeds(cur, ref, p, r) ==
    IF ref > 0 THEN (cur - ref) * r > p * ref
    ELSE IF ref < 0 THEN (cur - ref) * r < p * ref
    ELSE cur > 0

\* C1: for a valid series the entry_score analyze() returns lies in
\* [0, max_score] = [0, 8].
Thm_C1_ScoreWithinBounds ==
    (Analysed /\ ValidSeries(stock_data)) =>
        /\ analysis[1].max_score = 8
        /\ analysis[1].entry_score >= 0
        /\ analysis[1].entry_score <= analysis[1].max_score

\* a valid series on which every rule scores its maximum (2 + 2 + 2 + 1)
Wit_C1_MaximalScore ==
    Analysed /\ ValidSeries(stock_data) /\ analysis[1].entry_score = 7

\* C2: the rule table.  The points of each rule, as the table gives them.
TablePerformancePoints(p6) ==
    IF p6 # None /\ QGt(p6, 50, 1) THEN 2
    ELSE IF p6 # None /\ QGt(p6, 25, 1) THEN 1 ELSE 0

TableMovingAveragePoints(ti) ==
    LET n == Cardinality({f \in {"above_ma20", "above_ma50", "above_ma150"} : ti[f]})
    IN  IF n = 3 THEN 2 ELSE IF n = 2 THEN 1 ELSE 0

TableRsiOptimal(rsi) == rsi[1] >= 40 * rsi[2] /\ rsi[1] <= 60 * rsi[2]

\* the rules of the supporting factors, in rule-table order
TableSupporting(p6, up, ti) ==
    (IF TablePerformancePoints(p6) = 2 THEN <<"performance_exceptional">>
     ELSE IF TablePerformancePoints(p6) = 1 THEN <<"performance_excellent">>
     ELSE <<>>)
    \o (IF up THEN <<"uptrend_strong">> ELSE <<>>)
    \o (IF TableMovingAveragePoints(ti) = 2 THEN <<"ma_above_all">>
        ELSE IF TableMovingAveragePoints(ti) = 1 THEN <<"ma_above_most">>
        ELSE <<>>)
    \o (IF TableRsiOptimal(ti.current_rsi) THEN <<"rsi_optimal">> ELSE <<>>)

\* the rules of the risk factors, in rule-table order
TableRisks(up, ti) ==
    (IF up THEN <<>> ELSE <<"uptrend_none">>)
    \o (IF TableMovingAveragePoints(ti) = 0 THEN <<"ma_below_most">> ELSE <<>>)
    \o (IF ti.current_rsi[1] > 70 * ti.current_rsi[2] THEN <<"rsi_high">>
        ELSE IF ti.current_rsi[1] < 30 * ti.current_rsi[2] THEN <<"rsi_low">>
        ELSE <<>>)

RulesOf(factors) == [i \in 1..Len(factors) |-> factors[i].rule]

\* C2: for every combination of 6-month performance (or absent), uptrend flag,
\* above_ma flags and RSI, entry_score is the sum the rule table prescribes,
\* the supporting and risk lists hold exactly the table's factors in
\* rule-table order, and no factor is in both lists.
Thm_C2_RuleTable ==
    Analysed =>
        LET a == analysis[1]
            p6 == performance_metrics[1]["6_months"]
            ti == trend_indicators[1]
        IN  /\ a.entry_score =
                  TablePerformancePoints(p6) + (IF uptrend[1] THEN 2 ELSE 0)
                  + TableMovingAveragePoints(ti)
                  + (IF TableRsiOptimal(ti.current_rsi) THEN 1 ELSE 0)
            /\ RulesOf(a.supporting_factors) = TableSupporting(p6, uptrend[1], ti)
            /\ RulesOf(a.risk_factors) = TableRisks(uptrend[1], ti)
            /\ \A i \in 1..Len(a.supporting_factors) :
                  \A j \in 1..Len(a.risk_factors) :
                     a.supporting_factors[i] # a.risk_factors[j]

\* all four rules emit a supporting factor and none a risk factor
Wit_C2_FourSupportingFactors ==
    Analysed /\ Len(analysis[1].supporting_factors) = 4
             /\ analysis[1].entry_score = 6
             /\ Len(analysis[1].risk_factors) = 0

\* C3: when the series is empty or its last close is non-positive, the
\* analysis call signals the error and returns no result: the calculators'
\* results and the returned dict exist only for a non-empty series whose last
\* close is positive.
Cex_C3_InvalidDataRejected ==
    (pc \in {"score", "render"} \/ Analysed) =>
        Len(stock_data) >= 1 /\ LastClose(stock_data) > 0

\* C4: for a valid series of any length >= 1 (given the provider's metadata
\* record) analyze() never raises and returns a complete result.
Thm_C4_ShortHistoryNeverAborts ==
    ValidSeries(stock_data) =>
        /\ error # "Error in analysis: IndexError"
        /\ pc = "score" =>
              /\ DOMAIN performance_metrics[1] = Periods
              /\ DOMAIN trend_indicators[1] =
                    {"green_candles_last_20", "current_rsi", "above_ma20",
                     "above_ma50", "above_ma150"}
              /\ uptrend[1] \in BOOLEAN
        /\ pc \in {"render", "done"} /\ error # "Error in analysis: info failed"
              => /\ Analysed
                 /\ DOMAIN analysis[1] =
                       {"symbol", "current_price", "entry_score", "max_score",
                        "supporting_factors", "risk_factors", "performance",
                        "trend", "technical_indicators", "company_info"}
                 /\ analysis[1].performance = performance_metrics[1]
                 /\ analysis[1].technical_indicators = trend_indicators[1]

\* a result for a series shorter than every lookback window
Wit_C4_ResultForFourBars ==
    Analysed /\ ValidSeries(stock_data) /\ Len(stock_data) = 4

\* C5: for each period with window N the performance metric is absent iff the
\* series has fewer than N bars; above_maN is the boolean false whenever the
\* series has fewer than N bars.
Thm_C5_AbsentVersusFalse ==
    Analysed =>
        /\ \A p \in Periods :
              (analysis[1].performance[p] = None) <=> (Len(stock_data) < Days(p))
        /\ Len(stock_data) < 20 => analysis[1].technical_indicators.above_ma20 = FALSE
        /\ Len(stock_data) < 50 => analysis[1].technical_indicators.above_ma50 = FALSE
        /\ Len(stock_data) < 150 => analysis[1].technical_indicators.above_ma150 = FALSE

\* 149 bars whose last close is above every earlier level: the 1-year metric
\* is absent, the 6-month one present, above_ma50 true and above_ma150 false
Wit_C5_RisingButShort ==
    /\ Analysed
    /\ Len(stock_data) = 149
    /\ analysis[1].performance["1_year"] = None
    /\ analysis[1].performance["6_months"] # None
    /\ analysis[1].technical_indicators.above_ma50
    /\ ~analysis[1].technical_indicators.above_ma150
    /\ \A i \in 1..148 : stock_data[i].close < LastClose(stock_data)

\* C6 as stated: with at least N bars the metric is (current - ref)/ref*100
\* with ref the close at index length-1-N, the close exactly N bars before
\* the last bar (stated here only for the series that have that bar).
Cex_C6_ReferenceNBarsBack ==
    Analysed =>
        \A p \in Periods :
            Len(stock_data) >= Days(p) =>
                \/ Len(stock_data) - 1 - Days(p) < 0
                \/ SameQuotient(analysis[1].performance[p],
                      (LastClose(stock_data)
                         - CloseAt(stock_data, Len(stock_data) - 1 - Days(p))) * 100,
                      CloseAt(stock_data, Len(stock_data) - 1 - Days(p)))

\* C6 amended: with at least N bars the metric is (current - ref)/ref*100
\* with ref the close at index length-N, i.e. N-1 bars before the last bar.
Thm_C6_ReferenceAtLengthMinusN ==
    Analysed =>
        \A p \in Periods :
            Len(stock_data) >= Days(p) =>
                SameQuotient(analysis[1].performance[p],
                    (LastClose(stock_data)
                       - CloseAt(stock_data, Len(stock_data) - Days(p))) * 100,
                    CloseAt(stock_data, Len(stock_data) - Days(p)))

\* the close N bars back differs from the close N-1 bars back (N = 126)
Wit_C6_TwoReferencesDiffer ==
    /\ Analysed
    /\ Len(stock_data) >= 127
    /\ CloseAt(stock_data, Len(stock_data) - 126)
          # CloseAt(stock_data, Len(stock_data) - 127)
    /\ analysis[1].performance["6_months"] # None

\* C7: current_rsi is within [0, 100], is exactly 50.0 with fewer than 15
\* bars, and is 100 when the last 14 differences hold a gain and no loss.
Cex_C7_RsiDefaultBelow15Bars ==
    Analysed =>
        LET rsi == analysis[1].technical_indicators.current_rsi
            n == Len(stock_data)
        IN  /\ rsi[2] > 0 /\ rsi[1] >= 0 /\ rsi[1] <= 100 * rsi[2]
            /\ n < 15 => rsi[1] = 50 * rsi[2]
            /\ (/\ n >= 15
                /\ \A i \in (n - 13)..n : stock_data[i].close >= stock_data[i-1].close
                /\ \E i \in (n - 13)..n : stock_data[i].close > stock_data[i-1].close)
               => rsi[1] = 100 * rsi[2]

\* C8 as stated: uptrend iff the return over the close 120 bars before the
\* last bar exceeds 0.20 (>= 120 bars) or the return over the close 60 bars
\* before the last bar exceeds 0.15 (>= 60 bars); stated here only for
\* positive closes and lengths other than 60 and 120, where the window is
\* met and that bar does not exist.
Cex_C8_Uptrend120BarsBack ==
    (Analysed /\ ValidSeries(stock_data) /\ Len(stock_data) \notin {60, 120}) =>
        (analysis[1].trend.uptrend <=>
            \/ /\ Len(stock_data) >= 120
               /\ Len(stock_data) - 1 - 120 >= 0
               /\ ReturnExceeds(LastClose(stock_data),
                     CloseAt(stock_data, Len(stock_data) - 1 - 120), 20, 100)
            \/ /\ Len(stock_data) >= 60
               /\ Len(stock_data) - 1 - 60 >= 0
               /\ ReturnExceeds(LastClose(stock_data),
                     CloseAt(stock_data, Len(stock_data) - 1 - 60), 15, 100))

\* C8 amended: uptrend iff (>= 120 bars and the return over the close at
\* index length-120, 119 bars before the last bar, exceeds 0.20) or (>= 60
\* bars and the return over the close at index length-60, 59 bars before the
\* last bar, exceeds 0.15); a failed six-month check falls through.
Thm_C8_UptrendAtLengthMinus120 ==
    Analysed =>
        (analysis[1].trend.uptrend <=>
            \/ /\ Len(stock_data) >= 120
               /\ ReturnExceeds(LastClose(stock_data),
                     CloseAt(stock_data, Len(stock_data) - 120), 20, 100)
            \/ /\ Len(stock_data) >= 60
               /\ ReturnExceeds(LastClose(stock_data),
                     CloseAt(stock_data, Len(stock_data) - 60), 15, 100))

\* at least 120 bars, the six-month check fails and the three-month check
\* returns true
Wit_C8_FallThrough ==
    /\ Analysed
    /\ Len(stock_data) >= 120
    /\ ValidSeries(stock_data)
    /\ uptrend_ret = 134
    /\ analysis[1].trend.uptrend

\* 130 bars rising linearly from 100 to 130, in units of 1/43
LinearSeries == Bars(RampCloses(130, 4300, 10))

\* C9 as stated: on the linear series the six-month return is exactly 0.20,
\* the six-month check does not fire, the three-month return exceeds 0.15 and
\* the three-month check returns uptrend = true.
Cex_C9_SixMonthReturnExactlyFifth ==
    (Analysed /\ stock_data = LinearSeries) =>
        /\ QEq(Return(stock_data, 120), 20, 100)
        /\ uptrend_ret # 126
        /\ QGt(Return(stock_data, 60), 15, 100)
        /\ analysis[1].trend.uptrend

\* C9 amended: on the linear series the six-month return is 1190/4400
\* (about 0.2705, above 0.20), the six-month check fires and returns
\* uptrend = true; the three-month return, 590/5000 = 0.118, is not above
\* 0.15 and its check is not reached.
Thm_C9_SixMonthCheckFires ==
    (Analysed /\ stock_data = LinearSeries) =>
        /\ QEq(Return(stock_data, 120), 1190, 4400)
        /\ uptrend_ret = 126
        /\ QEq(Return(stock_data, 60), 590, 5000)
        /\ ~QGt(Return(stock_data, 60), 15, 100)
        /\ analysis[1].trend.uptrend

Wit_C9_LinearSeriesAnalysed == Analysed /\ stock_data = LinearSeries

\* C10: once analyze() has returned a result, the indicators section reads
\* only keys calculate_trend_indicators produces, the run ends with exactly
\* one recommendation, the one of the score percentage, and the error
\* handler has not run.
Cex_C10_RecommendationRendered ==
    Analysed =>
        /\ IndicatorKeysRead \subseteq DOMAIN analysis[1].technical_indicators
        /\ pc # "except"
        /\ pc = "done" =>
              /\ Cardinality({i \in 1..Len(rendered) : rendered[i] \in Recommendations}) = 1
              /\ rendered[Len(rendered)] =
                    (IF analysis[1].entry_score * 100 >= 75 * 8 THEN "recommend_ideal"
                     ELSE IF analysis[1].entry_score * 100 >= 50 * 8 THEN "recommend_caution"
                     ELSE "recommend_not")
              /\ \A i \in 1..Len(rendered) : rendered[i] # "error_message"

====
